---- MODULE Spec2Model ----
(***************************************************************************)
(* Stream translation of one chat request (backend/main.py): the request   *)
(* generator generate_ui_message_stream and FastAPIStreamAdapter, which    *)
(* turns the events of a model response into the downstream SSE frames,    *)
(* replays and executes the tool calls and makes the follow-up model call. *)
(*                                                                         *)
(* The model response (agentic_blocks' call_llm_stream / LLMResponse) and  *)
(* the execution of a tool are the environment: every event sequence, tool *)
(* call list and outcome (return or raise) is possible.                    *)
(***************************************************************************)
EXTENDS Integers, Sequences, FiniteSets, TLC

(* ----------------------------- bounds ---------------------------------- *)

\* events drawn from the two model streams of a request, together, before
\* a stream must complete, end or raise
MaxEvents == 2
\* tool calls in the response's structured tool-call list
MaxToolCalls == 2
\* events drawn from the streams of each of two concurrent requests
MaxConcurrentEvents == 1

(* --------------------------- characters -------------------------------- *)

Q == "\""

\* str.strip() removes leading and trailing whitespace
Whitespace == {" ", "\n", "\t"}

RECURSIVE LStrip(_)
LStrip(s) ==
    IF s # <<>> /\ Head(s) \in Whitespace THEN LStrip(Tail(s)) ELSE s

RECURSIVE RStrip(_)
RStrip(s) ==
    IF s # <<>> /\ s[Len(s)] \in Whitespace
    THEN RStrip(SubSeq(s, 1, Len(s) - 1))
    ELSE s

Strip(s) == RStrip(LStrip(s))

(* ------------------------------ JSON ----------------------------------- *)
(* json.loads on the texts used here: objects whose members are            *)
(* "key":"string", arrays of strings, and strings, without whitespace or   *)
(* escapes.  A value is [kind, str, members]; members is the dict as a set *)
(* of <<key, value>> pairs.  JsonLoads returns [ok, value]; ok = FALSE is  *)
(* json.JSONDecodeError.                                                   *)
(***************************************************************************)

JObject(members) == [kind |-> "object", str |-> <<>>, members |-> members]
JArray(items) == [kind |-> "array", str |-> <<>>, members |-> items]
JString(s) == [kind |-> "string", str |-> s, members |-> {}]
JNone == [kind |-> "none", str |-> <<>>, members |-> {}]
EmptyObject == JObject({})

NoParse == [ok |-> FALSE, val |-> <<>>, next |-> 0]

\* position of the first quote at or after i, 0 when there is none
RECURSIVE FindQuote(_, _)
FindQuote(s, i) ==
    IF i > Len(s) THEN 0
    ELSE IF s[i] = Q THEN i
    ELSE FindQuote(s, i + 1)

\* a string literal starting at i: [ok, val (its characters), next]
ParseString(s, i) ==
    IF i > Len(s) \/ s[i] # Q THEN NoParse
    ELSE LET j == FindQuote(s, i + 1)
         IN  IF j = 0 THEN NoParse
             ELSE [ok |-> TRUE, val |-> SubSeq(s, i + 1, j - 1), next |-> j + 1]

\* dict assignment d[k] = v: a later duplicate key replaces the earlier one
DictPut(d, k, v) == {p \in d : p[1] # k} \cup {<<k, v>>}

\* the members of an object from position i (after "{" or ","), up to "}"
RECURSIVE ParseMembers(_, _, _)
ParseMembers(s, i, d) ==
    LET k == ParseString(s, i)
    IN  IF ~k.ok \/ k.next > Len(s) \/ s[k.next] # ":" THEN NoParse
        ELSE LET v == ParseString(s, k.next + 1)
             IN  IF ~v.ok \/ v.next > Len(s) THEN NoParse
                 ELSE IF s[v.next] = "}"
                      THEN [ok |-> TRUE, val |-> DictPut(d, k.val, v.val),
                            next |-> v.next + 1]
                 ELSE IF s[v.next] = ","
                      THEN ParseMembers(s, v.next + 1, DictPut(d, k.val, v.val))
                 ELSE NoParse

\* the items of an array from position i (after "[" or ","), up to "]"
RECURSIVE ParseItems(_, _, _)
ParseItems(s, i, items) ==
    LET v == ParseString(s, i)
    IN  IF ~v.ok \/ v.next > Len(s) THEN NoParse
        ELSE IF s[v.next] = "]"
             THEN [ok |-> TRUE, val |-> items \cup {<<Cardinality(items), v.val>>},
                   next |-> v.next + 1]
        ELSE IF s[v.next] = ","
             THEN ParseItems(s, v.next + 1, items \cup {<<Cardinality(items), v.val>>})
        ELSE NoParse

JsonError == [ok |-> FALSE, value |-> JNone]

JsonLoads(s) ==
    IF s = <<>> THEN JsonError
    ELSE IF s[1] = "{" THEN
        IF Len(s) >= 2 /\ s[2] = "}"
        THEN IF Len(s) = 2 THEN [ok |-> TRUE, value |-> EmptyObject] ELSE JsonError
        ELSE LET r == ParseMembers(s, 2, {})
             IN  IF r.ok /\ r.next = Len(s) + 1
                 THEN [ok |-> TRUE, value |-> JObject(r.val)]
                 ELSE JsonError
    ELSE IF s[1] = "[" THEN
        IF Len(s) >= 2 /\ s[2] = "]"
        THEN IF Len(s) = 2 THEN [ok |-> TRUE, value |-> JArray({})] ELSE JsonError
        ELSE LET r == ParseItems(s, 2, {})
             IN  IF r.ok /\ r.next = Len(s) + 1
                 THEN [ok |-> TRUE, value |-> JArray(r.val)]
                 ELSE JsonError
    ELSE IF s[1] = Q THEN
        LET r == ParseString(s, 1)
        IN  IF r.ok /\ r.next = Len(s) + 1
            THEN [ok |-> TRUE, value |-> JString(r.val)]
            ELSE JsonError
    ELSE JsonError

\* whether a parsed value is a dict: .get and ** need one
IsDict(v) == v.kind = "object"

\* dict.get(key, default)
DictGet(v, key, default) ==
    IF \E p \in v.members : p[1] = key
    THEN (CHOOSE p \in v.members : p[1] = key)[2]
    ELSE default

(* --------------------------- the inputs -------------------------------- *)

\* request.model: only a name containing "thinking" (any case) shows reasoning
Models == {"openai/gpt-4o", "Qwen3-Thinking"}
HasThinking(m) == m \in {"Qwen3-Thinking"}

\* os.getenv: a variable that is not set gives None, and one may be set to ""
NoValue == "<unset>"
GatewayKey == "sk-or-1"
PrimaryKey == "sk-oa-1"
Environ(openrouter, openai) ==
    [OPENROUTER_API_KEY |-> openrouter, OPENAI_API_KEY |-> openai]

\* the deployments a request meets: its model and the process environment
\* (the code never relates the two, so they are not crossed)
Deployments ==
    { [model |-> "openai/gpt-4o", environ |-> Environ(GatewayKey, PrimaryKey)],
      [model |-> "Qwen3-Thinking", environ |-> Environ("", PrimaryKey)],
      [model |-> "openai/gpt-4o", environ |-> Environ(NoValue, NoValue)],
      [model |-> "Qwen3-Thinking", environ |-> Environ(NoValue, "")] }

\* the client's messages of the request, as <<role, content>>
Requests ==
    { << <<"user", "hi">>, <<"assistant", "hello">>, <<"tool", "x">>,
         <<"user", "weather in Paris?">> >> }

\* the tool events of a stream
ToolEventTypes == {"tool_call_start", "tool_call_delta", "tool_call_complete"}

\* what response.stream() has given: the contents of its text_delta events
\* and of its reasoning_delta events, each in arrival order (events_read
\* counts its tool events too), the tool calls the follow-up response
\* holds once its stream is over, and the calls of call_llm_stream made
NoEvents ==
    [text_delta |-> <<>>, reasoning_delta |-> <<>>, followup_tool_calls |-> <<>>,
     calls |-> 0]

\* await call_llm_stream(...): one more call of the model
Called(history) == [history EXCEPT !.calls = @ + 1]

\* the content of a TextDelta event
TextContents == { <<"H", "i">>, <<" ">> }
\* the content of a reasoning event
ReasoningContents == { <<"r">> }

\* tool_call.function.arguments of the structured tool-call list
ArgsCity ==
    <<"{", Q, "c", "i", "t", "y", Q, ":", Q, "P", "a", "r", "i", "s", Q, "}">>
ArgsTruncated == <<"{", Q, "c", "i", "t", "y", Q>>
ArgsArray == <<"[", "]">>
\* None or ""
ArgsAbsent == <<>>
ArgStrings == {ArgsCity, ArgsTruncated, ArgsArray, ArgsAbsent}

\* the tool calls a response may hold: the registered tool with each
\* argument text, and a tool that is not registered
ToolCallInputs ==
    [name : {"getWeather"}, arguments : ArgStrings]
    \cup [name : {"doesNotExist"}, arguments : {ArgsCity}]

\* response.tool_calls_async(): the calls in the order the model returned
\* them, each with its own id
ToolCallLists ==
    UNION { [1..n -> ToolCallInputs] : n \in 0..MaxToolCalls }

WithIds(l) ==
    [i \in 1..Len(l) |->
        [id |-> <<"call", i>>, name |-> l[i].name, arguments |-> l[i].arguments]]

(* --------------------------- tool registry ----------------------------- *)

\* tools_registry = {"getWeather": WeatherTool()}, built when the module is
\* imported
RegistryAtImport == {"getWeather"}

CityKey == <<"c", "i", "t", "y">>
Unknown == <<"U", "n", "k", "n", "o", "w", "n">>

\* WeatherTool.execute(**kwargs): the result's city
WeatherResult(kwargs) == [city |-> DictGet(kwargs, CityKey, Unknown)]

(* ------------------------------ frames --------------------------------- *)

NoId == <<"none", 0>>

\* each frame holds the keys its dict holds in the code
Frame(type) == [type |-> type]

TextStart(id, itemId) ==
    [type |-> "text-start", id |-> id, providerMetadata |-> itemId]
TextDeltaFrame(id, delta) == [type |-> "text-delta", id |-> id, delta |-> delta]
TextEnd(id) == [type |-> "text-end", id |-> id]
ReasoningStart(id) == [type |-> "reasoning-start", id |-> id]
ReasoningDeltaFrame(id, delta) ==
    [type |-> "reasoning-delta", id |-> id, delta |-> delta]
ReasoningEnd(id) == [type |-> "reasoning-end", id |-> id]
ToolInputStart(id, name) ==
    [type |-> "tool-input-start", toolCallId |-> id, toolName |-> name]
ToolInputDelta(id, char) ==
    [type |-> "tool-input-delta", toolCallId |-> id, inputTextDelta |-> char]
ToolInputAvailable(id, name, input) ==
    [type |-> "tool-input-available", toolCallId |-> id, toolName |-> name,
     input |-> input, providerMetadata |-> <<"fc", id[2]>>]
ToolOutput(id, output) ==
    [type |-> "tool-output-available", toolCallId |-> id, output |-> output]
PreliminaryToolOutput(id, output) ==
    [type |-> "tool-output-available", toolCallId |-> id, output |-> output,
     preliminary |-> TRUE]
ErrorFrame(e) == [type |-> "error", error |-> e]
Done == Frame("[DONE]")

\* the output payloads
ToolNotFound == [error |-> "Tool not found"]
Loading(city) == [status |-> "loading", city |-> city]
Success(result) == [status |-> "success", city |-> result.city]

(* ------------------------------ state ---------------------------------- *)

VARIABLES
    pc,                     \* where the request's generator stands
    request,                \* the client's messages
    model,                  \* request.model
    next_uuid,              \* uuid.uuid4(): the next fresh value
    message_id,             \* the request's random message id
    messages,               \* Conversation State
    out,                    \* the downstream frames, in order
    text_content_buffer,
    events_read,            \* events read from the first stream before its end
    has_started_reasoning,
    tool_calls,             \* response.tool_calls_async()
    tc_index,               \* the tool call the loop stands at
    char_index,             \* the character the delta loop stands at
    arguments,              \* the parsed arguments of that tool call
    exec_log,               \* every call of a tool's execute, with its outcome
    followup_id,
    has_started_followup,
    followup_read,          \* events read from the follow-up stream before its end
    environ,                \* os.environ: the two provider keys
    config,                 \* what get_llm_config() gave chat_endpoint
    http_status,            \* the status of the HTTP response, 0 before it
    upstream,               \* what the first stream has given so far
    tools_registry,         \* the module's tools_registry: the names it holds
    suspended,              \* the frame of the other request of the process
    alone,                  \* the state that request stood in when it suspended
    chunks,                 \* llm.py: the chunks the provider's stream has given
    parser,                 \* llm.py: the StreamingResponseParser of the call
    events                  \* llm.py: the events call_llm_stream has yielded

vars ==
    <<pc, request, model, next_uuid, message_id, messages, out,
      text_content_buffer, events_read, has_started_reasoning, tool_calls,
      tc_index, char_index, arguments, exec_log, followup_id,
      has_started_followup, followup_read, environ, config, http_status,
      upstream, tools_registry, suspended, alone, chunks, parser, events>>

\* what the adapter's tool loop leaves alone
streamVars ==
    <<text_content_buffer, events_read, has_started_reasoning, upstream>>

followupVars == <<followup_id, has_started_followup, followup_read>>
\* what belongs to the process, not to the running request
parserVars == <<chunks, parser, events>>
processVars == <<environ, tools_registry, suspended, alone, parserVars>>
endpointVars == <<processVars, config, http_status>>
requestVars == <<request, model, message_id, endpointVars>>

text_id == <<"msg", message_id>>
reasoning_id == <<"reasoning", 0>>

Emit(frames) == out' = out \o frames

\* (mutant) the exception is swallowed: the generator ends without a frame
RaiseSilently(e) ==
    /\ out' = out
    /\ pc' = "done"

\* the except clause of generate_ui_message_stream: one error frame carrying
\* str(e), and the generator ends
Raise(e) ==
    /\ out' = Append(out, ErrorFrame(e))
    /\ pc' = "done"

(* --------------------------- conversation ------------------------------ *)

Message(role, content, tool_call_id) ==
    [role |-> role, content |-> content, tool_call_id |-> tool_call_id]

SystemPrompt == <<"text", "You are a helpful assistant">>

add_system_message(ms, content) == Append(ms, Message("system", content, NoId))
add_user_message(ms, content) == Append(ms, Message("user", content, NoId))
add_assistant_message(ms, content) ==
    Append(ms, Message("assistant", content, NoId))
add_tool_response(ms, tool_call_id, content) ==
    Append(ms, Message("tool", content, tool_call_id))

\* (mutant) a message of any other role is kept as a user message
RECURSIVE BuildMessagesOfEveryRole(_, _)
BuildMessagesOfEveryRole(ms, ui) ==
    IF ui = <<>> THEN ms
    ELSE LET m == Head(ui)
             content == <<"text", m[2]>>
         IN  BuildMessagesOfEveryRole(
                 IF m[1] = "assistant" THEN add_assistant_message(ms, content)
                 ELSE add_user_message(ms, content),
                 Tail(ui))

\* the loop over request.messages: only user and assistant messages are kept
RECURSIVE BuildMessages(_, _)
BuildMessages(ms, ui) ==
    IF ui = <<>> THEN ms
    ELSE LET m == Head(ui)
             content == <<"text", m[2]>>
         IN  BuildMessages(
                 IF m[1] = "user" THEN add_user_message(ms, content)
                 ELSE IF m[1] = "assistant" THEN add_assistant_message(ms, content)
                 ELSE ms,
                 Tail(ui))

(* ------------------------------ config --------------------------------- *)

NoConfig == [api_key |-> NoValue, provider |-> "none", model |-> "none"]

\* a value os.getenv gave is truthy: set and not empty
Truthy(v) == v # NoValue /\ v # ""

\* (mutant) the primary provider's key is looked at first
get_llm_config_primary_first(e) ==
    IF Truthy(e.OPENAI_API_KEY)
    THEN [ok |-> TRUE,
          value |-> [api_key |-> e.OPENAI_API_KEY, provider |-> "openai",
                     model |-> "gpt-4o"]]
    ELSE IF Truthy(e.OPENROUTER_API_KEY)
    THEN [ok |-> TRUE,
          value |-> [api_key |-> e.OPENROUTER_API_KEY, provider |-> "openrouter",
                     model |-> "qwen/qwen3-235b-a22b-2507"]]
    ELSE [ok |-> FALSE, value |-> NoConfig]

\* get_llm_config(): the OpenRouter key first, then the OpenAI key; ok is
\* FALSE where it raises ValueError
get_llm_config(e) ==
    IF Truthy(e.OPENROUTER_API_KEY)
    THEN [ok |-> TRUE,
          value |-> [api_key |-> e.OPENROUTER_API_KEY, provider |-> "openrouter",
                     model |-> "qwen/qwen3-235b-a22b-2507"]]
    ELSE IF Truthy(e.OPENAI_API_KEY)
    THEN [ok |-> TRUE,
          value |-> [api_key |-> e.OPENAI_API_KEY, provider |-> "openai",
                     model |-> "gpt-4o"]]
    ELSE [ok |-> FALSE, value |-> NoConfig]

(* ------------------------------- Init ---------------------------------- *)

\* no other request is in the process
NoRequest == "none"

\* a request has arrived and none of its code has run
RequestArrives ==
    /\ pc = "chat_endpoint"
    /\ request \in Requests
    /\ config = NoConfig
    /\ http_status = 0
    /\ upstream = NoEvents
    /\ next_uuid = 1
    /\ message_id = 0
    /\ messages = <<>>
    /\ out = <<>>
    /\ text_content_buffer = <<>>
    /\ events_read = 0
    /\ has_started_reasoning = FALSE
    /\ tool_calls = <<>>
    /\ tc_index = 0
    /\ char_index = 0
    /\ arguments = JNone
    /\ exec_log = <<>>
    /\ followup_id = NoId
    /\ has_started_followup = FALSE
    /\ followup_read = 0

\* StreamingResponseParser.__init__
StreamingResponseParser == [tool_calls |-> <<>>, content_buffer |-> <<>>]

\* parser = StreamingResponseParser(), and no chunk of the stream is read
ParserStarts ==
    /\ chunks = <<>>
    /\ parser = StreamingResponseParser
    /\ events = <<>>

Init ==
    /\ RequestArrives
    /\ \E d \in Deployments : model = d.model /\ environ = d.environ
    /\ tools_registry = RegistryAtImport
    /\ suspended = NoRequest
    /\ alone = NoRequest
    /\ ParserStarts

(* --------------------------- chat_endpoint ----------------------------- *)

\* the configuration has a key: the StreamingResponse is returned and the
\* generator is started
ChatEndpointStreams ==
    /\ pc = "chat_endpoint"
    /\ LET r == get_llm_config(environ)
       IN  /\ r.ok
           /\ Truthy(r.value.api_key)
           /\ config' = r.value
    /\ http_status' = 200
    /\ pc' = "request"
    /\ UNCHANGED <<request, model, processVars, message_id, next_uuid, messages, out,
                   streamVars, tool_calls, tc_index, char_index, arguments,
                   exec_log, followupVars>>

\* get_llm_config raises ValueError, or its api_key is empty: HTTPException
\* with status 500, and generate_ui_message_stream is never called
ChatEndpointRejects ==
    /\ pc = "chat_endpoint"
    /\ LET r == get_llm_config(environ)
       IN  ~r.ok \/ ~Truthy(r.value.api_key)
    /\ http_status' = 500
    /\ pc' = "rejected"
    /\ UNCHANGED <<request, model, processVars, config, message_id, next_uuid,
                   messages, out, streamVars, tool_calls, tc_index, char_index,
                   arguments, exec_log, followupVars>>

(* ------------------- generate_ui_message_stream ------------------------ *)

\* message_id = uuid4(); the conversation is built; the first model call
\* returns its response
CallModel ==
    /\ pc = "request"
    /\ message_id' = next_uuid
    /\ next_uuid' = next_uuid + 1
    /\ messages' = BuildMessages(add_system_message(<<>>, SystemPrompt), request)
    /\ upstream' = Called(upstream)
    /\ pc' = "start"
    /\ UNCHANGED <<request, model, endpointVars, out, text_content_buffer,
                   events_read, has_started_reasoning, tool_calls, tc_index,
                   char_index, arguments, exec_log, followupVars>>

\* the first model call raises
CallModelRaises ==
    /\ pc = "request"
    /\ message_id' = next_uuid
    /\ next_uuid' = next_uuid + 1
    /\ messages' = BuildMessages(add_system_message(<<>>, SystemPrompt), request)
    /\ upstream' = Called(upstream)
    /\ Raise("LLMError")
    /\ UNCHANGED <<request, model, endpointVars, text_content_buffer,
                   events_read, has_started_reasoning, tool_calls, tc_index,
                   char_index, arguments, exec_log, followupVars>>

(* ----------------------- convert_to_sse_stream ------------------------- *)

StartStream ==
    /\ pc = "start"
    /\ Emit(<<Frame("start"), Frame("start-step")>>)
    /\ pc' = "streaming"
    /\ UNCHANGED <<requestVars, next_uuid, messages, streamVars, tool_calls,
                   tc_index, char_index, arguments, exec_log, followupVars>>

\* the stream has another event to give
MoreEvents == pc = "streaming" /\ events_read < MaxEvents

\* (mutant) = in place of +=: the buffer only keeps the last content
BufferTextOverwrites(buffer, content) == content

\* text_content_buffer += event.content
BufferText(buffer, content) == buffer \o content

OnTextDelta ==
    /\ MoreEvents
    /\ \E content \in TextContents :
          /\ upstream' = [upstream EXCEPT !.text_delta = Append(@, content)]
          /\ text_content_buffer' = BufferText(text_content_buffer, content)
    /\ events_read' = events_read + 1
    /\ UNCHANGED <<pc, requestVars, next_uuid, messages, out,
                   has_started_reasoning, tool_calls, tc_index, char_index,
                   arguments, exec_log, followupVars>>

\* (mutant) the model's name is not looked at
HandleReasoningDeltaAnyModel(reasoning) ==
    (IF ~has_started_reasoning THEN <<ReasoningStart(reasoning_id)>> ELSE <<>>)
    \o <<ReasoningDeltaFrame(reasoning_id, reasoning)>>

\* _handle_reasoning_delta: the frames one reasoning event gives
HandleReasoningDelta(reasoning) ==
    IF ~HasThinking(model) THEN <<>>
    ELSE (IF ~has_started_reasoning THEN <<ReasoningStart(reasoning_id)>> ELSE <<>>)
         \o <<ReasoningDeltaFrame(reasoning_id, reasoning)>>

OnReasoningDelta ==
    /\ MoreEvents
    /\ \E reasoning \in ReasoningContents :
          /\ upstream' =
                [upstream EXCEPT !.reasoning_delta = Append(@, reasoning)]
          /\ Emit(HandleReasoningDelta(reasoning))
    /\ has_started_reasoning' = (has_started_reasoning \/ HasThinking(model))
    /\ events_read' = events_read + 1
    /\ UNCHANGED <<pc, requestVars, next_uuid, messages, text_content_buffer,
                   tool_calls, tc_index, char_index, arguments, exec_log,
                   followupVars>>

\* (mutant) the tool events of the stream are forwarded, as
\* _handle_tool_start would
ToolEventFramesForwarded(type) ==
    IF type = "tool_call_start"
    THEN <<ToolInputStart(<<"call", 1>>, "getWeather")>>
    ELSE <<>>

\* tool_call_start and tool_call_complete: pass; tool_call_delta has no
\* branch: no frame
ToolEventFrames(type) == <<>>

OnToolEvent ==
    /\ MoreEvents
    /\ \E type \in ToolEventTypes : Emit(ToolEventFrames(type))
    /\ events_read' = events_read + 1
    /\ UNCHANGED <<pc, requestVars, next_uuid, messages, text_content_buffer,
                   upstream,
                   has_started_reasoning, tool_calls, tc_index, char_index,
                   arguments, exec_log, followupVars>>

\* response_complete: reasoning is closed and the loop is left
OnResponseComplete ==
    /\ pc = "streaming"
    /\ Emit(IF has_started_reasoning THEN <<ReasoningEnd(reasoning_id)>> ELSE <<>>)
    /\ pc' = "tool_calls"
    /\ UNCHANGED <<requestVars, next_uuid, messages, text_content_buffer,
                   events_read, has_started_reasoning, upstream, tool_calls, tc_index,
                   char_index, arguments, exec_log, followupVars>>

\* the stream ends without a response_complete event
StreamEnds ==
    /\ pc = "streaming"
    /\ pc' = "tool_calls"
    /\ UNCHANGED <<requestVars, next_uuid, messages, out, streamVars,
                   tool_calls, tc_index, char_index, arguments, exec_log,
                   followupVars>>

\* iterating the stream raises
StreamRaises ==
    /\ pc = "streaming"
    /\ Raise("StreamError")
    /\ UNCHANGED <<requestVars, next_uuid, messages, streamVars, tool_calls,
                   tc_index, char_index, arguments, exec_log, followupVars>>

\* "Decide whether to show initial text content" and the emission's own test
ShowInitialText(text, calls) ==
    /\ (Strip(text) # <<>> \/ calls = <<>>)
    /\ text # <<>>

\* the text block of the first turn
InitialText(text, calls) ==
    IF ShowInitialText(text, calls)
    THEN <<TextStart(text_id, text_id), TextDeltaFrame(text_id, text),
           TextEnd(text_id)>>
    ELSE <<>>

\* tool_calls_async() returns the calls; the buffered text is shown or not
GetToolCalls ==
    /\ pc = "tool_calls"
    /\ \E l \in ToolCallLists :
          /\ tool_calls' = WithIds(l)
          /\ Emit(InitialText(text_content_buffer, l))
          /\ IF l # <<>>
             THEN pc' = "tool_input_start" /\ tc_index' = 1
             ELSE pc' = "finish" /\ tc_index' = tc_index
    /\ UNCHANGED <<requestVars, next_uuid, messages, streamVars, char_index,
                   arguments, exec_log, followupVars>>

GetToolCallsRaises ==
    /\ pc = "tool_calls"
    /\ Raise("ToolCallsError")
    /\ UNCHANGED <<requestVars, next_uuid, messages, streamVars, tool_calls,
                   tc_index, char_index, arguments, exec_log, followupVars>>

(* --------------------- _handle_reliable_tool_call ---------------------- *)

tool_call == tool_calls[tc_index]

\* tool_call.function.arguments or "{}"
ArgumentsStr(tc) == IF tc.arguments # <<>> THEN tc.arguments ELSE <<"{", "}">>

\* (mutant) the parsed value is lost: the arguments are always the empty
\* object
ParseArgumentsAlwaysEmpty(s) == EmptyObject

\* json.loads(arguments_str) if arguments_str else {}, {} on JSONDecodeError
ParseArguments(s) ==
    IF s = <<>> THEN EmptyObject
    ELSE LET r == JsonLoads(s)
         IN  IF r.ok THEN r.value ELSE EmptyObject

\* where the loop over the tool calls goes after call i
ToolLoopNext(i, calls) ==
    IF i < Len(calls)
    THEN [pc |-> "tool_input_start", i |-> i + 1]
    ELSE [pc |-> "followup_step", i |-> i]

HandleToolCallStart ==
    /\ pc = "tool_input_start"
    /\ arguments' = ParseArguments(ArgumentsStr(tool_call))
    /\ Emit(<<ToolInputStart(tool_call.id, tool_call.name)>>)
    /\ char_index' = 1
    /\ pc' = "tool_input_delta"
    /\ UNCHANGED <<requestVars, next_uuid, messages, streamVars, tool_calls,
                   tc_index, exec_log, followupVars>>

\* (mutant) the characters are taken from the raw arguments, which may be
\* None or empty, and not from arguments_str
DeltaFramesOfRawArguments(tc, i) ==
    IF i <= Len(tc.arguments)
    THEN <<ToolInputDelta(tc.id, tc.arguments[i])>>
    ELSE <<>>

\* the frame of character i of arguments_str
DeltaFrames(tc, i) == <<ToolInputDelta(tc.id, ArgumentsStr(tc)[i])>>

\* one frame per character of arguments_str, a sleep after each
HandleToolCallDelta ==
    /\ pc = "tool_input_delta"
    /\ char_index <= Len(ArgumentsStr(tool_call))
    /\ Emit(DeltaFrames(tool_call, char_index))
    /\ char_index' = char_index + 1
    /\ UNCHANGED <<pc, requestVars, next_uuid, messages, streamVars, tool_calls,
                   tc_index, arguments, exec_log, followupVars>>

\* (mutant) the frame of the complete arguments is not sent
AvailableFramesDropped(tc, args) == <<>>

\* the frame of the complete arguments
AvailableFrames(tc, args) == <<ToolInputAvailable(tc.id, tc.name, args)>>

HandleToolCallAvailable ==
    /\ pc = "tool_input_delta"
    /\ char_index > Len(ArgumentsStr(tool_call))
    /\ Emit(AvailableFrames(tool_call, arguments))
    /\ pc' = "execute_tool"
    /\ UNCHANGED <<requestVars, next_uuid, messages, streamVars, tool_calls,
                   tc_index, char_index, arguments, exec_log, followupVars>>

(* ----------------------------- _execute_tool --------------------------- *)

\* the frames of a tool that is not in the registry
NotFoundFrames(id) == <<ToolOutput(id, ToolNotFound)>>

\* the loading frame, before the tool is executed
LoadingFrames(id, args) ==
    <<PreliminaryToolOutput(id, Loading(DictGet(args, CityKey, Unknown)))>>

\* the frame of the tool's result
ResultFrames(id, result) == <<ToolOutput(id, Success(result))>>

ExecuteToolNotFound ==
    /\ pc = "execute_tool"
    /\ tool_call.name \notin tools_registry
    /\ Emit(NotFoundFrames(tool_call.id))
    /\ pc' = ToolLoopNext(tc_index, tool_calls).pc
    /\ tc_index' = ToolLoopNext(tc_index, tool_calls).i
    /\ UNCHANGED <<requestVars, next_uuid, messages, streamVars, tool_calls,
                   char_index, arguments, exec_log, followupVars>>

\* arguments.get on parsed arguments that are no dict: AttributeError
ExecuteToolBadArguments ==
    /\ pc = "execute_tool"
    /\ tool_call.name \in tools_registry
    /\ ~IsDict(arguments)
    /\ Raise("AttributeError")
    /\ UNCHANGED <<requestVars, next_uuid, messages, streamVars, tool_calls,
                   tc_index, char_index, arguments, exec_log, followupVars>>

ExecuteToolLoading ==
    /\ pc = "execute_tool"
    /\ tool_call.name \in tools_registry
    /\ IsDict(arguments)
    /\ Emit(LoadingFrames(tool_call.id, arguments))
    /\ pc' = "execute"
    /\ UNCHANGED <<requestVars, next_uuid, messages, streamVars, tool_calls,
                   tc_index, char_index, arguments, exec_log, followupVars>>

Execution(id, kwargs, phase) ==
    [id |-> id, kwargs |-> kwargs, phase |-> phase, outcome |-> "running"]

Ended(log, outcome) == [log EXCEPT ![Len(log)].outcome = outcome]

\* (mutant) the execution is started and not awaited
FireAndForget(i, calls) == ToolLoopNext(i, calls)

\* result = await tool.execute(**arguments): the generator waits for the
\* execution at call i before it goes on
AwaitExecute(i, calls) == [pc |-> "await_execute", i |-> i]

\* tool.execute(**arguments) is called
ExecuteToolCall ==
    /\ pc = "execute"
    /\ exec_log' = Append(exec_log, Execution(tool_call.id, arguments, "tool"))
    /\ pc' = AwaitExecute(tc_index, tool_calls).pc
    /\ tc_index' = AwaitExecute(tc_index, tool_calls).i
    /\ UNCHANGED <<requestVars, next_uuid, messages, out, streamVars, tool_calls,
                   char_index, arguments, followupVars>>

ExecuteToolReturns ==
    /\ pc = "await_execute"
    /\ exec_log' = Ended(exec_log, "returned")
    /\ Emit(ResultFrames(tool_call.id, WeatherResult(arguments)))
    /\ pc' = ToolLoopNext(tc_index, tool_calls).pc
    /\ tc_index' = ToolLoopNext(tc_index, tool_calls).i
    /\ UNCHANGED <<requestVars, next_uuid, messages, streamVars, tool_calls,
                   char_index, arguments, followupVars>>

\* a tool's execute may raise (the follow-up loop has an except clause for
\* it); nothing in _execute_tool catches what it raises
ExecuteToolRaises ==
    /\ pc = "await_execute"
    /\ exec_log' = Ended(exec_log, "raised")
    /\ Raise("ToolExecutionError")
    /\ UNCHANGED <<requestVars, next_uuid, messages, streamVars, tool_calls,
                   tc_index, char_index, arguments, followupVars>>

(* ----------------- _generate_model_followup_response ------------------- *)

\* the step is closed and the next one opened; the loop over the tool
\* calls begins (messages and tool_calls are not empty here)
FollowupStep ==
    /\ pc = "followup_step"
    /\ Emit(<<Frame("finish-step"), Frame("start-step")>>)
    /\ pc' = "followup_tools"
    /\ tc_index' = 1
    /\ UNCHANGED <<requestVars, next_uuid, messages, streamVars, tool_calls,
                   char_index, arguments, exec_log, followupVars>>

FollowupLoopNext(i, calls) ==
    IF i < Len(calls)
    THEN [pc |-> "followup_tools", i |-> i + 1]
    ELSE [pc |-> "followup_call", i |-> i]

ToolError == <<"Error">>
ToolResult(result) == <<"result", result.city>>

\* a tool that is not in the registry gets no tool response
FollowupSkipsTool ==
    /\ pc = "followup_tools"
    /\ tool_call.name \notin tools_registry
    /\ pc' = FollowupLoopNext(tc_index, tool_calls).pc
    /\ tc_index' = FollowupLoopNext(tc_index, tool_calls).i
    /\ UNCHANGED <<requestVars, next_uuid, messages, out, streamVars, tool_calls,
                   char_index, arguments, exec_log, followupVars>>

\* json.loads of the raw arguments raises (None, "", no JSON), or ** is
\* given something that is no dict: the except clause records an error
FollowupArgumentsFail ==
    /\ pc = "followup_tools"
    /\ tool_call.name \in tools_registry
    /\ LET r == JsonLoads(tool_call.arguments)
       IN  ~r.ok \/ ~IsDict(r.value)
    /\ messages' = add_tool_response(messages, tool_call.id, ToolError)
    /\ pc' = FollowupLoopNext(tc_index, tool_calls).pc
    /\ tc_index' = FollowupLoopNext(tc_index, tool_calls).i
    /\ UNCHANGED <<requestVars, next_uuid, out, streamVars, tool_calls,
                   char_index, arguments, exec_log, followupVars>>

\* the tool is executed again, for the conversation
FollowupExecutes ==
    /\ pc = "followup_tools"
    /\ tool_call.name \in tools_registry
    /\ LET r == JsonLoads(tool_call.arguments)
       IN  /\ r.ok /\ IsDict(r.value)
           /\ arguments' = r.value
           /\ exec_log' = Append(exec_log,
                                 Execution(tool_call.id, r.value, "followup"))
    /\ pc' = "followup_await"
    /\ UNCHANGED <<requestVars, next_uuid, messages, out, streamVars, tool_calls,
                   tc_index, char_index, followupVars>>

FollowupExecuteReturns ==
    /\ pc = "followup_await"
    /\ exec_log' = Ended(exec_log, "returned")
    /\ messages' = add_tool_response(messages, tool_call.id,
                                     ToolResult(WeatherResult(arguments)))
    /\ pc' = FollowupLoopNext(tc_index, tool_calls).pc
    /\ tc_index' = FollowupLoopNext(tc_index, tool_calls).i
    /\ UNCHANGED <<requestVars, next_uuid, out, streamVars, tool_calls,
                   char_index, arguments, followupVars>>

FollowupExecuteRaises ==
    /\ pc = "followup_await"
    /\ exec_log' = Ended(exec_log, "raised")
    /\ messages' = add_tool_response(messages, tool_call.id, ToolError)
    /\ pc' = FollowupLoopNext(tc_index, tool_calls).pc
    /\ tc_index' = FollowupLoopNext(tc_index, tool_calls).i
    /\ UNCHANGED <<requestVars, next_uuid, out, streamVars, tool_calls,
                   char_index, arguments, followupVars>>

\* the second model call returns its response; followup_id = uuid4()
FollowupCall ==
    /\ pc = "followup_call"
    /\ followup_id' = <<"msg", next_uuid>>
    /\ next_uuid' = next_uuid + 1
    /\ has_started_followup' = FALSE
    /\ upstream' = Called(upstream)
    /\ pc' = "followup_stream"
    /\ UNCHANGED <<requestVars, messages, out, text_content_buffer,
                   events_read, has_started_reasoning, tool_calls, tc_index,
                   char_index, arguments, exec_log, followup_read>>

\* followup_response.tool_calls_async(): the tool calls the second response
\* may hold
FollowupToolCallLists ==
    { <<>>,
      <<[id |-> <<"call", 0>>, name |-> "getWeather", arguments |-> ArgsAbsent]>> }

\* the follow-up stream is over: its response holds its tool calls, which
\* the translator does not ask for; a response that gave text holds none
FollowupResponseHolds ==
    \E l \in FollowupToolCallLists :
        /\ has_started_followup => l = <<>>
        /\ upstream' = [upstream EXCEPT !.followup_tool_calls = l]

FallbackText == <<"Tool execution completed successfully.">>

\* the except clause of the follow-up: a text block whose frames each draw
\* their own uuid4()
Fallback(u) ==
    <<TextStart(<<"msg", u>>, <<"msg", u + 1>>),
      TextDeltaFrame(<<"msg", u + 2>>, FallbackText),
      TextEnd(<<"msg", u + 3>>)>>

\* (mutant) the failed call is made again
FollowupFailsAndRetries ==
    /\ Emit(<<>>)
    /\ next_uuid' = next_uuid
    /\ pc' = "followup_call"

FollowupFails ==
    /\ Emit(Fallback(next_uuid))
    /\ next_uuid' = next_uuid + 4
    /\ pc' = "finish"

FollowupCallRaises ==
    /\ pc = "followup_call"
    /\ upstream' = Called(upstream)
    /\ FollowupFails
    /\ UNCHANGED <<requestVars, messages, text_content_buffer, events_read,
                   has_started_reasoning, tool_calls, tc_index, char_index,
                   arguments, exec_log, followupVars>>

MoreFollowupEvents ==
    pc = "followup_stream" /\ events_read + followup_read < MaxEvents

\* the frames one text_delta of the follow-up gives
FollowupTextFrames(started, content) ==
    (IF ~started THEN <<TextStart(followup_id, followup_id)>> ELSE <<>>)
    \o <<TextDeltaFrame(followup_id, content)>>

FollowupTextDelta ==
    /\ MoreFollowupEvents
    /\ \E content \in TextContents :
          Emit(FollowupTextFrames(has_started_followup, content))
    /\ has_started_followup' = TRUE
    /\ followup_read' = followup_read + 1
    /\ UNCHANGED <<pc, requestVars, next_uuid, messages, streamVars, tool_calls,
                   tc_index, char_index, arguments, exec_log, followup_id>>

\* every other event but response_complete is passed over
FollowupOtherEvent ==
    /\ MoreFollowupEvents
    /\ followup_read' = followup_read + 1
    /\ UNCHANGED <<pc, requestVars, next_uuid, messages, out, streamVars,
                   tool_calls, tc_index, char_index, arguments, exec_log,
                   followup_id, has_started_followup>>

FollowupResponseComplete ==
    /\ pc = "followup_stream"
    /\ Emit(IF has_started_followup THEN <<TextEnd(followup_id)>> ELSE <<>>)
    /\ FollowupResponseHolds
    /\ pc' = "finish"
    /\ UNCHANGED <<requestVars, next_uuid, messages, text_content_buffer,
                   events_read, has_started_reasoning, tool_calls, tc_index,
                   char_index, arguments, exec_log, followupVars>>

FollowupStreamEnds ==
    /\ pc = "followup_stream"
    /\ FollowupResponseHolds
    /\ pc' = "finish"
    /\ UNCHANGED <<requestVars, next_uuid, messages, out, text_content_buffer,
                   events_read, has_started_reasoning, tool_calls, tc_index,
                   char_index, arguments, exec_log, followupVars>>

FollowupStreamRaises ==
    /\ pc = "followup_stream"
    /\ FollowupFails
    /\ UNCHANGED <<requestVars, messages, streamVars, tool_calls, tc_index,
                   char_index, arguments, exec_log, followupVars>>

\* (mutant) the last step is left open
FinishFramesUnclosed == <<Frame("finish"), Done>>

\* the end of convert_to_sse_stream
FinishFrames == <<Frame("finish-step"), Frame("finish"), Done>>

Finish ==
    /\ pc = "finish"
    /\ Emit(FinishFrames)
    /\ pc' = "done"
    /\ UNCHANGED <<requestVars, next_uuid, messages, streamVars, tool_calls,
                   tc_index, char_index, arguments, exec_log, followupVars>>

(* --------------------------- specification ----------------------------- *)

Next ==
    \/ ChatEndpointStreams
    \/ ChatEndpointRejects
    \/ CallModel
    \/ CallModelRaises
    \/ StartStream
    \/ OnTextDelta
    \/ OnReasoningDelta
    \/ OnToolEvent
    \/ OnResponseComplete
    \/ StreamEnds
    \/ StreamRaises
    \/ GetToolCalls
    \/ GetToolCallsRaises
    \/ HandleToolCallStart
    \/ HandleToolCallDelta
    \/ HandleToolCallAvailable
    \/ ExecuteToolNotFound
    \/ ExecuteToolBadArguments
    \/ ExecuteToolLoading
    \/ ExecuteToolCall
    \/ ExecuteToolReturns
    \/ ExecuteToolRaises
    \/ FollowupStep
    \/ FollowupSkipsTool
    \/ FollowupArgumentsFail
    \/ FollowupExecutes
    \/ FollowupExecuteReturns
    \/ FollowupExecuteRaises
    \/ FollowupCall
    \/ FollowupCallRaises
    \/ FollowupTextDelta
    \/ FollowupOtherEvent
    \/ FollowupResponseComplete
    \/ FollowupStreamEnds
    \/ FollowupStreamRaises
    \/ Finish

Spec == Init /\ [][Next]_vars

\* the event loop runs a generator that can take a step; both model
\* streams are finite and every execution of a tool returns or raises
FairSpec == Spec /\ WF_vars(Next)

(* ------------------- two requests in one process ----------------------- *)

\* (mutant) the text buffer is kept in the module, not in the generator
OwnedByRequestButBuffer ==
    {"pc", "request", "model", "next_uuid", "message_id", "messages", "out",
     "events_read", "has_started_reasoning", "tool_calls", "tc_index",
     "char_index", "arguments", "exec_log", "followup_id",
     "has_started_followup", "followup_read", "config", "http_status",
     "upstream"}

\* what a request holds in its own generator frame and adapter instance:
\* the locals of chat_endpoint, generate_ui_message_stream and
\* convert_to_sse_stream, and the attributes FastAPIStreamAdapter.__init__
\* sets; the draws of uuid4 and the events of its upstream come with it
OwnedByRequest ==
    {"pc", "request", "model", "next_uuid", "message_id", "messages", "out",
     "text_content_buffer", "events_read", "has_started_reasoning",
     "tool_calls", "tc_index", "char_index", "arguments", "exec_log",
     "followup_id", "has_started_followup", "followup_read", "config",
     "http_status", "upstream"}

\* the state of the running request
Running ==
    [pc |-> pc, request |-> request, model |-> model, next_uuid |-> next_uuid,
     message_id |-> message_id, messages |-> messages, out |-> out,
     text_content_buffer |-> text_content_buffer, events_read |-> events_read,
     has_started_reasoning |-> has_started_reasoning,
     tool_calls |-> tool_calls, tc_index |-> tc_index,
     char_index |-> char_index, arguments |-> arguments,
     exec_log |-> exec_log, followup_id |-> followup_id,
     has_started_followup |-> has_started_followup,
     followup_read |-> followup_read, config |-> config,
     http_status |-> http_status, upstream |-> upstream]

\* the value a name has for the request that is resumed: its own if the
\* request owns the name, else the one the process holds now
Resumed(name, held, own) == IF name \in OwnedByRequest THEN own ELSE held

\* the value that stays behind for the request that is suspended
Kept(name, held, own) == IF name \in OwnedByRequest THEN held ELSE own

\* the state the suspended request would resume in
Resumable ==
    [pc |-> Resumed("pc", pc, suspended.pc),
     request |-> Resumed("request", request, suspended.request),
     model |-> Resumed("model", model, suspended.model),
     next_uuid |-> Resumed("next_uuid", next_uuid, suspended.next_uuid),
     message_id |-> Resumed("message_id", message_id, suspended.message_id),
     messages |-> Resumed("messages", messages, suspended.messages),
     out |-> Resumed("out", out, suspended.out),
     text_content_buffer |->
        Resumed("text_content_buffer", text_content_buffer,
                suspended.text_content_buffer),
     events_read |-> Resumed("events_read", events_read, suspended.events_read),
     has_started_reasoning |->
        Resumed("has_started_reasoning", has_started_reasoning,
                suspended.has_started_reasoning),
     tool_calls |-> Resumed("tool_calls", tool_calls, suspended.tool_calls),
     tc_index |-> Resumed("tc_index", tc_index, suspended.tc_index),
     char_index |-> Resumed("char_index", char_index, suspended.char_index),
     arguments |-> Resumed("arguments", arguments, suspended.arguments),
     exec_log |-> Resumed("exec_log", exec_log, suspended.exec_log),
     followup_id |-> Resumed("followup_id", followup_id, suspended.followup_id),
     has_started_followup |->
        Resumed("has_started_followup", has_started_followup,
                suspended.has_started_followup),
     followup_read |->
        Resumed("followup_read", followup_read, suspended.followup_read),
     config |-> Resumed("config", config, suspended.config),
     http_status |-> Resumed("http_status", http_status, suspended.http_status),
     upstream |-> Resumed("upstream", upstream, suspended.upstream)]

\* what stays in the frame of the request that is suspended now
Suspending ==
    [pc |-> Kept("pc", pc, suspended.pc),
     request |-> Kept("request", request, suspended.request),
     model |-> Kept("model", model, suspended.model),
     next_uuid |-> Kept("next_uuid", next_uuid, suspended.next_uuid),
     message_id |-> Kept("message_id", message_id, suspended.message_id),
     messages |-> Kept("messages", messages, suspended.messages),
     out |-> Kept("out", out, suspended.out),
     text_content_buffer |->
        Kept("text_content_buffer", text_content_buffer,
             suspended.text_content_buffer),
     events_read |-> Kept("events_read", events_read, suspended.events_read),
     has_started_reasoning |->
        Kept("has_started_reasoning", has_started_reasoning,
             suspended.has_started_reasoning),
     tool_calls |-> Kept("tool_calls", tool_calls, suspended.tool_calls),
     tc_index |-> Kept("tc_index", tc_index, suspended.tc_index),
     char_index |-> Kept("char_index", char_index, suspended.char_index),
     arguments |-> Kept("arguments", arguments, suspended.arguments),
     exec_log |-> Kept("exec_log", exec_log, suspended.exec_log),
     followup_id |-> Kept("followup_id", followup_id, suspended.followup_id),
     has_started_followup |->
        Kept("has_started_followup", has_started_followup,
             suspended.has_started_followup),
     followup_read |->
        Kept("followup_read", followup_read, suspended.followup_read),
     config |-> Kept("config", config, suspended.config),
     http_status |-> Kept("http_status", http_status, suspended.http_status),
     upstream |-> Kept("upstream", upstream, suspended.upstream)]

\* the event loop leaves the running request at an await or a yield and
\* resumes the other one
Switch ==
    /\ suspended' = Suspending
    /\ alone' = Running
    /\ pc' = Resumable.pc
    /\ request' = Resumable.request
    /\ model' = Resumable.model
    /\ next_uuid' = Resumable.next_uuid
    /\ message_id' = Resumable.message_id
    /\ messages' = Resumable.messages
    /\ out' = Resumable.out
    /\ text_content_buffer' = Resumable.text_content_buffer
    /\ events_read' = Resumable.events_read
    /\ has_started_reasoning' = Resumable.has_started_reasoning
    /\ tool_calls' = Resumable.tool_calls
    /\ tc_index' = Resumable.tc_index
    /\ char_index' = Resumable.char_index
    /\ arguments' = Resumable.arguments
    /\ exec_log' = Resumable.exec_log
    /\ followup_id' = Resumable.followup_id
    /\ has_started_followup' = Resumable.has_started_followup
    /\ followup_read' = Resumable.followup_read
    /\ config' = Resumable.config
    /\ http_status' = Resumable.http_status
    /\ upstream' = Resumable.upstream
    /\ UNCHANGED <<environ, tools_registry, parserVars>>

\* the responses the two concurrent requests are given: the first one's
\* holds no tool call or a single one, whose argument text is short; the
\* second one's holds none
ConcurrentLoad ==
    /\ events_read + followup_read <= MaxConcurrentEvents
    /\ IF HasThinking(model)
       THEN /\ Len(tool_calls) <= 1
            /\ \A k \in DOMAIN tool_calls :
                  tool_calls[k].arguments \in {ArgsAbsent, ArgsArray}
       ELSE tool_calls = <<>>

\* two requests have arrived in a process whose environment holds a key,
\* the first for the reasoning-capable model
ConcurrentInit ==
    /\ RequestArrives
    /\ model = "Qwen3-Thinking"
    /\ environ = Environ("", PrimaryKey)
    /\ tools_registry = RegistryAtImport
    /\ suspended = [Running EXCEPT !.model = "openai/gpt-4o"]
    /\ alone = suspended
    /\ ParserStarts

\* the running request takes a step, or the event loop switches
ConcurrentNext ==
    \/ Next /\ ConcurrentLoad'
    \/ Switch

ConcurrentSpec == ConcurrentInit /\ [][ConcurrentNext]_vars

(* ------------------- llm.py: StreamingResponseParser ------------------- *)

MaxChunks == 3

\* getattr(tool_call, "id", None) of a fragment that carries no id
None == <<"None", 0>>

\* the id the provider gives the tool call at an index of the response
CallId(index) == <<"call", index>>

ToolNames == {"", "getWeather"}
ArgumentFragments == {<<>>, <<"a", "b">>}

\* one element of delta.tool_calls: the provider names the call by its index
\* in every fragment; the id and the name come with some fragments only
ToolCallFragment(index, id, name, args) ==
    [index |-> index, id |-> id,
     function |-> [name |-> name, arguments |-> args]]

\* the fragment of a call that carries its id, and the fragments that
\* continue the call at index 0 with more of its arguments and no id
ToolCallFragments ==
    {ToolCallFragment(i, CallId(i), n, a) :
        i \in 0..1, n \in ToolNames, a \in ArgumentFragments}
    \cup {ToolCallFragment(0, None, "", a) : a \in ArgumentFragments \ {<<>>}}

\* delta.tool_calls: nothing, one fragment, or the fragments of two calls
DeltaToolCalls ==
    {<<>>} \cup {<<f>> : f \in ToolCallFragments}
    \cup {<<ToolCallFragment(0, CallId(0), "getWeather", <<"a", "b">>),
            ToolCallFragment(1, CallId(1), "getWeather", <<"a", "b">>)>>}

Choice(content, delta_tool_calls, finish_reason) ==
    [delta |-> [content |-> content, tool_calls |-> delta_tool_calls],
     finish_reason |-> finish_reason]

\* the chunks of a stream: one without choices, and those whose first choice
\* carries text, tool-call fragments, a finish reason, or nothing
Chunks ==
    {[choices |-> <<>>]}
    \cup {[choices |-> <<Choice(c, t, f)>>] :
            c \in {<<>>}, t \in DeltaToolCalls, f \in {"", "stop"}}
    \cup {[choices |-> <<Choice(<<"t">>, <<>>, f)>>] : f \in {"", "stop"}}

TextDelta(content) == [event_type |-> "text_delta", content |-> content]

ToolCallStart(id, name) ==
    [event_type |-> "tool_call_start", tool_call_id |-> id, tool_name |-> name]

ToolCallDelta(id, delta) ==
    [event_type |-> "tool_call_delta", tool_call_id |-> id,
     arguments_delta |-> delta]

ToolCallComplete(id, name, args) ==
    [event_type |-> "tool_call_complete", tool_call_id |-> id,
     tool_name |-> name, arguments |-> args]

ResponseComplete(finish_reason) ==
    [event_type |-> "response_complete", finish_reason |-> finish_reason]

\* self.tool_calls is a dict: its items in the order of their insertion
IsTracked(tracked, id) == \E k \in DOMAIN tracked : tracked[k].id = id
Slot(tracked, id) == CHOOSE k \in DOMAIN tracked : tracked[k].id = id

\* one turn of "for tool_call in delta.tool_calls"
HandleToolCallFragment(tracked, fragment) ==
    LET id == fragment.id
        name == fragment.function.name
        args == fragment.function.arguments
        known == IF IsTracked(tracked, id)
                 THEN tracked
                 ELSE Append(tracked,
                             [id |-> id, name |-> "", arguments |-> <<>>])
        k == Slot(known, id)
        named == IF name # "" THEN [known EXCEPT ![k].name = name] ELSE known
        start == IF name # "" THEN <<ToolCallStart(id, name)>> ELSE <<>>
        deltas == [i \in 1..Len(args) |-> ToolCallDelta(id, <<args[i]>>)]
    IN  IF id = None
        THEN [events |-> <<>>, tool_calls |-> tracked]
        ELSE [events |-> start \o deltas,
              tool_calls |-> [named EXCEPT ![k].arguments = @ \o args]]

RECURSIVE HandleToolCallFragments(_, _)
HandleToolCallFragments(tracked, delta_tool_calls) ==
    IF delta_tool_calls = <<>>
    THEN [events |-> <<>>, tool_calls |-> tracked]
    ELSE LET first == HandleToolCallFragment(tracked, Head(delta_tool_calls))
             rest == HandleToolCallFragments(first.tool_calls,
                                             Tail(delta_tool_calls))
         IN  [events |-> first.events \o rest.events,
              tool_calls |-> rest.tool_calls]

\* (mutant) a ToolCallComplete for every tracked call, named or not
CompletionsOfEveryCall(tracked) ==
    [k \in DOMAIN tracked |->
        ToolCallComplete(tracked[k].id, tracked[k].name, tracked[k].arguments)]

\* the ToolCallComplete events of a chunk with a finish reason
Completions(tracked) ==
    LET named == SelectSeq(tracked, LAMBDA t : t.name # "")
    IN  [k \in DOMAIN named |->
            ToolCallComplete(named[k].id, named[k].name, named[k].arguments)]

\* parse_chunk: the events of the chunk and the parser after it
parse_chunk(self, chunk) ==
    IF chunk.choices = <<>>
    THEN [events |-> <<>>, self |-> self]
    ELSE LET choice == chunk.choices[1]
             delta == choice.delta
             text == IF delta.content # <<>>
                     THEN <<TextDelta(delta.content)>>
                     ELSE <<>>
             calls == HandleToolCallFragments(self.tool_calls, delta.tool_calls)
             completion ==
                 IF choice.finish_reason # ""
                 THEN Completions(calls.tool_calls)
                      \o <<ResponseComplete(choice.finish_reason)>>
                 ELSE <<>>
         IN  [events |-> text \o calls.events \o completion,
              self |-> [tool_calls |-> calls.tool_calls,
                        content_buffer |->
                            self.content_buffer \o delta.content]]

\* call_llm_stream: the next chunk of the stream is parsed and its events
\* are yielded
ParseChunk ==
    /\ Len(chunks) < MaxChunks
    /\ \E chunk \in Chunks :
          LET parsed == parse_chunk(parser, chunk)
          IN  /\ chunks' = Append(chunks, chunk)
              /\ parser' = parsed.self
              /\ events' = events \o parsed.events
    /\ UNCHANGED <<pc, request, model, next_uuid, message_id, messages, out,
                   streamVars, tool_calls, tc_index, char_index, arguments,
                   exec_log, followupVars, environ, config, http_status,
                   tools_registry, suspended, alone>>

\* one call of call_llm_stream with a configuration that holds a key
ParserInit ==
    /\ Init
    /\ model = "openai/gpt-4o"
    /\ environ = Environ(GatewayKey, PrimaryKey)

ParserNext == ParseChunk

ParserSpec == ParserInit /\ [][ParserNext]_vars

(* ------------------------ reading the frames --------------------------- *)
(* out only grows, and every behaviour ends with pc = "done": what is said *)
(* of the frames of a stream is said of out in the states where the        *)
(* generator has ended.                                                    *)
(***************************************************************************)

Positions == 1..Len(out)
At(type) == {i \in Positions : out[i].type = type}
Count(type) == Cardinality(At(type))
StreamOver == pc = "done"
HasError == Len(out) > 0 /\ out[Len(out)].type = "error"
Completed == StreamOver /\ Len(out) > 0 /\ out[Len(out)].type = "[DONE]"

Max(S) == CHOOSE x \in S : \A y \in S : y <= x

ToolFrameTypes ==
    {"tool-input-start", "tool-input-delta", "tool-input-available",
     "tool-output-available"}

\* the positions of the frames of one type that belong to tool call id
ToolAt(type, id) == {i \in At(type) : out[i].toolCallId = id}

Registered(tc) == tc.name \in tools_registry

\* start-step and finish-step alternate, start-step first: steps are never
\* nested
StepsAlternate ==
    LET steps == At("start-step") \cup At("finish-step")
    IN  \A i \in steps :
            LET before == {j \in steps : j < i}
            IN  IF before = {} THEN out[i].type = "start-step"
                ELSE out[Max(before)].type # out[i].type

\* start, then one or more start-step/finish-step pairs, then finish, [DONE]
WellFormed ==
    /\ Len(out) >= 5
    /\ At("start") = {1}
    /\ out[2].type = "start-step"
    /\ StepsAlternate
    /\ \A i \in At("finish-step") :
          i < Len(out) - 2 => out[i + 1].type = "start-step"
    /\ out[Len(out) - 2].type = "finish-step"
    /\ At("finish") = {Len(out) - 1}
    /\ At("[DONE]") = {Len(out)}

(* ------------------------------ claims --------------------------------- *)

\* C1 as stated: every downstream stream, whatever the outcome of the model
\* calls and of tool execution, is one start, then one or more strictly
\* alternating start-step/finish-step pairs, one finish, then [DONE] last.
C1_EveryStreamWellFormed == StreamOver => WellFormed

\* C1, amended: every downstream stream that ends without an error frame is
\* one start, then one or more strictly alternating start-step/finish-step
\* pairs, then one finish immediately followed by [DONE] as the last frame;
\* in every stream (also one cut short by an error frame) steps are never
\* nested and start occurs at most once, as the first frame.
C1_FrameOrder ==
    StreamOver =>
        /\ StepsAlternate
        /\ At("start") \subseteq {1}
        /\ ~HasError => WellFormed

\* a stream of two steps (tool calls and a follow-up) that ended with [DONE]
C1_Witness == Completed /\ Count("start-step") = 2 /\ WellFormed

\* the ids of the tool calls of the response
ToolCallIds == {tool_calls[k].id : k \in DOMAIN tool_calls}

\* every position of a is before every position of b
AllBefore(a, b) == \A i \in a : \A j \in b : i < j

\* C2: for every tool call X of the response, tool-input-start for X
\* precedes every tool-input-delta for X, all of which precede the single
\* tool-input-available for X, which precedes every tool-output-available
\* for X; no tool frame carries another id.
C2_ToolFrameOrder ==
    StreamOver =>
        /\ \A i \in Positions :
              out[i].type \in ToolFrameTypes => out[i].toolCallId \in ToolCallIds
        /\ \A id \in ToolCallIds :
              LET mine == {i \in Positions :
                              /\ out[i].type \in ToolFrameTypes
                              /\ out[i].toolCallId = id}
                  starts == {i \in mine : out[i].type = "tool-input-start"}
                  deltas == {i \in mine : out[i].type = "tool-input-delta"}
                  avails == {i \in mine : out[i].type = "tool-input-available"}
                  outputs == {i \in mine : out[i].type = "tool-output-available"}
              IN  /\ Cardinality(starts) <= 1
                  /\ Cardinality(avails) <= 1
                  /\ deltas # {} => starts # {}
                  /\ avails # {} => starts # {}
                  /\ outputs # {} => avails # {}
                  /\ AllBefore(starts, deltas)
                  /\ AllBefore(starts, avails)
                  /\ AllBefore(deltas, avails)
                  /\ AllBefore(avails, outputs)
                  /\ Completed => Cardinality(avails) = 1 /\ outputs # {}

\* a finished stream with a tool call that has deltas and two outputs
C2_Witness ==
    /\ Completed
    /\ \E id \in ToolCallIds :
          /\ Cardinality(ToolAt("tool-input-delta", id)) > 1
          /\ Cardinality(ToolAt("tool-output-available", id)) = 2

\* what an exception that reaches generate_ui_message_stream may say
Failures ==
    {"LLMError", "StreamError", "ToolCallsError", "AttributeError",
     "ToolExecutionError"}

\* an execution of the tool phase raised
RaisedInToolPhase ==
    \E k \in DOMAIN exec_log :
        exec_log[k].phase = "tool" /\ exec_log[k].outcome = "raised"

\* C3: when an exception is raised while the first model stream is
\* iterated, while its tool calls are obtained, or while a tool is executed
\* in the tool phase, the stream holds exactly one error frame, carrying the
\* failure, as its last frame, and neither finish nor [DONE]; a stream ends
\* either so or with [DONE].
C3_ErrorFrameTerminal ==
    /\ RaisedInToolPhase =>
          StreamOver /\ HasError /\ out[Len(out)].error = "ToolExecutionError"
    /\ StreamOver =>
          /\ At("error") \subseteq {Len(out)}
          /\ HasError \/ Completed
          /\ HasError =>
                /\ out[Len(out)].error \in Failures
                /\ Count("finish") = 0
                /\ Count("[DONE]") = 0

\* the execution of a tool raised in the tool phase, after frames were sent
C3_Witness ==
    /\ RaisedInToolPhase
    /\ HasError
    /\ Count("tool-output-available") >= 1

\* the frame that closes a block, and the id a frame carries
Closer(type) ==
    CASE type = "text-start" -> "text-end"
      [] type = "reasoning-start" -> "reasoning-end"
      [] type = "tool-input-start" -> "tool-input-available"
Openers == {"text-start", "reasoning-start", "tool-input-start"}
FrameId(f) == IF "id" \in DOMAIN f THEN f.id ELSE f.toolCallId

\* the frames that close the block opened at position i
ClosersOf(i) ==
    {j \in At(Closer(out[i].type)) : FrameId(out[j]) = FrameId(out[i])}

\* C4 as stated: in every stream that reaches finish, every text-start,
\* reasoning-start and tool-input-start has exactly one matching text-end,
\* reasoning-end or tool-input-available with the same id, after it and
\* before the finish-step that closes its step.
C4_BlocksClosed ==
    Completed =>
        \A i \in Positions :
            out[i].type \in Openers =>
                /\ Cardinality(ClosersOf(i)) = 1
                /\ \A j \in ClosersOf(i) :
                      /\ i < j
                      /\ \A k \in At("finish-step") : i < k => j < k

\* the failures that end the request before the text decision is taken
EarlyFailures == {"LLMError", "StreamError", "ToolCallsError"}

\* the first turn is over: tool_calls_async() has returned
TurnDecided ==
    /\ pc \notin {"chat_endpoint", "rejected", "request", "start", "streaming",
                 "tool_calls"}
    /\ ~(HasError /\ out[Len(out)].error \in EarlyFailures)

\* the text block of the first turn is in the stream
InitialTextBlock ==
    \E i \in At("text-start") :
        /\ i + 2 <= Len(out)
        /\ out[i] = TextStart(text_id, text_id)
        /\ out[i + 1] = TextDeltaFrame(text_id, text_content_buffer)
        /\ out[i + 2] = TextEnd(text_id)

\* C5 as stated: when the first turn completes, one text-start/text-delta/
\* text-end triple is emitted if and only if the buffered text is not empty
\* or the response has no tool calls (so an empty turn without tool calls
\* has a text block, and whitespace-only text is shown beside tool calls).
C5_TextFlushedIff ==
    TurnDecided =>
        (InitialTextBlock <=> (text_content_buffer # <<>> \/ tool_calls = <<>>))

\* a complete frame sequence of tool call k
FullSequence(k) ==
    LET tc == tool_calls[k]
    IN  /\ Cardinality(ToolAt("tool-input-start", tc.id)) = 1
        /\ Cardinality(ToolAt("tool-input-delta", tc.id)) = Len(ArgumentsStr(tc))
        /\ Cardinality(ToolAt("tool-input-available", tc.id)) = 1
        /\ Cardinality(ToolAt("tool-output-available", tc.id))
              = IF Registered(tc) THEN 2 ELSE 1

\* the tool calls of the response that are not registered
UnknownCalls == {k \in DOMAIN tool_calls : ~Registered(tool_calls[k])}

\* C6 as stated: a tool call whose name is not registered still gets its
\* tool-input-available, immediately followed by exactly one
\* tool-output-available whose output holds an error field (no loading
\* frame); every remaining tool call of the response is still processed with
\* its full frame sequence, and the stream goes on to finish and [DONE].
C6_UnknownToolContinues ==
    StreamOver =>
        \A k \in UnknownCalls :
            LET id == tool_calls[k].id
                avails == ToolAt("tool-input-available", id)
                outputs == ToolAt("tool-output-available", id)
            IN  ToolAt("tool-input-start", id) # {} =>
                    /\ Cardinality(avails) = 1
                    /\ Cardinality(outputs) = 1
                    /\ \A o \in outputs :
                          /\ o - 1 \in avails
                          /\ "error" \in DOMAIN out[o].output
                    /\ \A j \in DOMAIN tool_calls : j > k => FullSequence(j)
                    /\ Completed

\* the failures of _execute_tool
ToolFailures == {"AttributeError", "ToolExecutionError"}

\* C7 as stated: a failure of a registered tool's execution in the tool
\* phase is caught for that call: the call's terminal tool-output-available
\* carries an error payload and the stream is not ended by the failure.
C7_ToolFailureContained ==
    /\ ~(HasError /\ out[Len(out)].error \in ToolFailures)
    /\ \A k \in DOMAIN exec_log :
          exec_log[k].phase = "tool" /\ exec_log[k].outcome = "raised" =>
              \E o \in ToolAt("tool-output-available", exec_log[k].id) :
                  "error" \in DOMAIN out[o].output

\* the argument text of the call is no JSON
InvalidArguments(tc) == ~JsonLoads(ArgumentsStr(tc)).ok

ToolExecutions(id) ==
    {k \in DOMAIN exec_log : exec_log[k].id = id /\ exec_log[k].phase = "tool"}

\* C8 as stated: for a tool call whose argument text is no valid JSON,
\* tool-input-available carries the empty object, the tool is executed with
\* empty arguments, no error frame results, and the stream goes on to
\* finish. Said of the calls that were reached and, where the tool is
\* registered, whose execution returned.
C8_ParseFailureReachesFinish ==
    StreamOver =>
        \A k \in DOMAIN tool_calls :
            LET id == tool_calls[k].id
                avails == ToolAt("tool-input-available", id)
                returned == {e \in ToolExecutions(id) :
                                exec_log[e].outcome = "returned"}
            IN  /\ InvalidArguments(tool_calls[k])
                /\ avails # {}
                /\ Registered(tool_calls[k]) => returned # {}
                => /\ \A a \in avails : out[a].input = EmptyObject
                   /\ \A e \in ToolExecutions(id) :
                         exec_log[e].kwargs = EmptyObject
                   /\ ~HasError
                   /\ Completed

\* C9 as stated: every call of a registered tool has exactly two
\* tool-output-available frames: a loading payload flagged preliminary,
\* then a terminal success or error payload without the flag.
C9_TwoPhaseOutput ==
    StreamOver =>
        \A k \in DOMAIN tool_calls :
            LET id == tool_calls[k].id
                outputs == ToolAt("tool-output-available", id)
            IN  Registered(tool_calls[k]) /\ ToolAt("tool-input-available", id) # {}
                => /\ Cardinality(outputs) = 2
                   /\ \E o \in outputs :
                         /\ o + 1 \in outputs
                         /\ "preliminary" \in DOMAIN out[o]
                         /\ out[o].output.status = "loading"
                         /\ "preliminary" \notin DOMAIN out[o + 1]
                         /\ \/ "error" \in DOMAIN out[o + 1].output
                            \/ out[o + 1].output.status = "success"

\* the executions in flight
InFlight == {k \in DOMAIN exec_log : exec_log[k].outcome = "running"}

ToolPositions == {i \in Positions : out[i].type \in ToolFrameTypes}

\* C10: the tool calls of a response are processed one after the other in
\* the order of the list: never are two executions in flight, the
\* executions of the tool phase start in list order, all frames of call i
\* come before the first frame of call i+1, and while an execution of the
\* tool phase is in flight no frame of a later call has been sent.
C10_Sequential ==
    /\ Cardinality(InFlight) <= 1
    /\ \A a \in DOMAIN exec_log :
          exec_log[a].phase = "tool" =>
              /\ \A b \in DOMAIN exec_log :
                    a < b /\ exec_log[b].phase = "tool"
                        => exec_log[a].id[2] < exec_log[b].id[2]
              /\ a \in InFlight =>
                    \A i \in ToolPositions :
                        out[i].toolCallId[2] <= exec_log[a].id[2]
    /\ StreamOver =>
          LET tools == ToolPositions
              frames == [k \in DOMAIN tool_calls |->
                            {i \in tools : out[i].toolCallId = tool_calls[k].id}]
          IN  \A k \in DOMAIN tool_calls :
                  \A l \in DOMAIN tool_calls :
                      k < l => AllBefore(frames[k], frames[l])

\* a finished stream in which two tool calls were executed in the tool phase
C10_Witness ==
    /\ Completed
    /\ Cardinality({k \in DOMAIN exec_log :
                       exec_log[k].phase = "tool"
                       /\ exec_log[k].outcome = "returned"}) = 2

\* the conversation as generate_ui_message_stream built it for the first call
BuiltMessages == BuildMessages(add_system_message(<<>>, SystemPrompt), request)

\* the messages appended to the conversation since
AppendedMessages == SubSeq(messages, Len(BuiltMessages) + 1, Len(messages))

\* C11 as stated: when the follow-up model call is issued, the conversation
\* holds, after all earlier messages, exactly one tool-result message for
\* each tool call of the first response, registered or not, executed with
\* success or not, tagged with the call's id, in the order of the calls; and
\* the call is issued only after all tool calls were executed and
\* finish-step, start-step were emitted.
C11_OneToolResultPerCall ==
    pc = "followup_call" =>
        /\ Len(out) >= 2
        /\ out[Len(out) - 1].type = "finish-step"
        /\ out[Len(out)].type = "start-step"
        /\ \A k \in DOMAIN exec_log : exec_log[k].outcome # "running"
        /\ SubSeq(messages, 1, Len(BuiltMessages)) = BuiltMessages
        /\ Len(AppendedMessages) = Len(tool_calls)
        /\ \A k \in DOMAIN tool_calls :
              /\ AppendedMessages[k].role = "tool"
              /\ AppendedMessages[k].tool_call_id = tool_calls[k].id

\* the argument text accumulated for tool call id: its inputTextDelta
\* fragments, concatenated in the order of the frames
AccumulatedText(id) ==
    LET deltas == SelectSeq(out, LAMBDA f : f.type = "tool-input-delta"
                                            /\ f.toolCallId = id)
    IN  [i \in 1..Len(deltas) |-> deltas[i].inputTextDelta]

\* what parsing a text gives: its JSON value, the empty object for a text
\* that is empty or no JSON
Parsed(text) ==
    LET r == JsonLoads(text)
    IN  IF text # <<>> /\ r.ok THEN r.value ELSE EmptyObject

\* C12: for every tool call, parsing the argument text accumulated for its
\* id (the empty object standing for a text that does not parse) gives
\* exactly the object carried as input by its tool-input-available frame
\* and passed to every execution of the tool for that call.
C12_RoundTrip ==
    StreamOver =>
        \A k \in DOMAIN tool_calls :
            LET id == tool_calls[k].id
                parsed == Parsed(AccumulatedText(id))
            IN  /\ \A a \in ToolAt("tool-input-available", id) :
                      out[a].input = parsed
                /\ \A e \in DOMAIN exec_log :
                      exec_log[e].id = id => exec_log[e].kwargs = parsed

\* a finished stream with a call whose text parses to an object with a city,
\* carried by its frame and executed in the tool phase and in the follow-up
C12_Witness ==
    /\ Completed
    /\ \E k \in DOMAIN tool_calls :
          LET id == tool_calls[k].id
          IN  /\ AccumulatedText(id) = ArgsCity
              /\ Parsed(AccumulatedText(id)) # EmptyObject
              /\ ToolAt("tool-input-available", id) # {}
              /\ \E e \in DOMAIN exec_log :
                    exec_log[e].id = id /\ exec_log[e].phase = "tool"
              /\ \E e \in DOMAIN exec_log :
                    exec_log[e].id = id /\ exec_log[e].phase = "followup"

\* the values of a frame that come from a uuid4() draw. A draw gives a value
\* that no other draw gives, in this run or in another (next_uuid numbers the
\* draws of a run), so two runs on the same upstream agree on a frame up to
\* the message id exactly when the frame holds no other drawn value.
DrawnValues(f) ==
    (IF "id" \in DOMAIN f /\ f.id[1] = "msg" THEN {f.id[2]} ELSE {})
    \cup (IF f.type = "text-start" THEN {f.providerMetadata[2]} ELSE {})

\* C13 as stated: two runs of the translator on the same deterministic
\* upstream give the same frames except for the occurrences of the one random
\* per-request message id: no frame holds another random value.
C13_OnlyMessageIdRandom ==
    \A i \in Positions : DrawnValues(out[i]) \subseteq {message_id}

\* C14: the tool-input-delta frames of a tool call each carry one character
\* of its argument string (arguments_str), in order and without gaps: at
\* any point they spell a prefix of the string, and once the call's
\* tool-input-available is sent there are as many of them as the string has
\* characters and they spell the string.
C14_OneDeltaPerCharacter ==
    StreamOver =>
        \A k \in DOMAIN tool_calls :
            LET id == tool_calls[k].id
                str == ArgumentsStr(tool_calls[k])
                text == AccumulatedText(id)
            IN  /\ Len(text) <= Len(str)
                /\ text = SubSeq(str, 1, Len(text))
                /\ ToolAt("tool-input-available", id) # {} => text = str

\* a finished stream with the 16 delta frames of {"city":"Paris"}
C14_Witness ==
    /\ Completed
    /\ \E k \in DOMAIN tool_calls :
          /\ ArgumentsStr(tool_calls[k]) = ArgsCity
          /\ Cardinality(ToolAt("tool-input-delta", tool_calls[k].id)) = 16
          /\ AccumulatedText(tool_calls[k].id) = ArgsCity

\* neither provider key is configured
NoCredentials ==
    ~Truthy(environ.OPENROUTER_API_KEY) /\ ~Truthy(environ.OPENAI_API_KEY)

\* the key the configuration must hold: the gateway's where it is set
ExpectedKey ==
    IF Truthy(environ.OPENROUTER_API_KEY)
    THEN environ.OPENROUTER_API_KEY
    ELSE environ.OPENAI_API_KEY

\* what C15 says of each state
CredentialsChecked ==
    /\ pc = "chat_endpoint" => http_status = 0 /\ out = <<>> /\ message_id = 0
    /\ pc # "chat_endpoint" /\ NoCredentials =>
          /\ pc = "rejected"
          /\ http_status = 500
          /\ out = <<>>
          /\ messages = <<>>
          /\ message_id = 0
    /\ pc # "chat_endpoint" /\ ~NoCredentials =>
          /\ pc # "rejected"
          /\ http_status = 200
          /\ config.api_key = ExpectedKey
          /\ config.provider =
                (IF ExpectedKey = environ.OPENROUTER_API_KEY
                 THEN "openrouter" ELSE "openai")

\* C15: without credentials (neither key set, or set to the empty string)
\* POST /chat answers with status 500, no frame is emitted and no model call
\* is made, then or later (the rejected request takes no further step); with
\* a key the request streams, and the gateway key is the one used where it
\* is set.
C15_CredentialsGate == []CredentialsChecked /\ [][pc # "rejected"]_vars

\* a request rejected for want of credentials
C15_Witness == pc = "rejected" /\ NoCredentials /\ http_status = 500

\* the first stream is being consumed, or has ended with its tool calls not
\* yet obtained
ConsumingFirstStream == pc \in {"start", "streaming", "tool_calls"}

RECURSIVE Concatenation(_)
\* the contents of a sequence of events, joined in order
Concatenation(contents) ==
    IF contents = <<>> THEN <<>>
    ELSE Head(contents) \o Concatenation(Tail(contents))

TextFrameTypes == {"text-start", "text-delta", "text-end"}

\* the positions of the first step: those before the first finish-step
FirstStep ==
    LET finishes == At("finish-step")
    IN  IF finishes = {} THEN Positions
        ELSE 1..((CHOOSE j \in finishes : \A k \in finishes : j <= k) - 1)

\* C17: while the first model stream is consumed no text frame is emitted;
\* the first step holds at most one text-start, text-delta, text-end
\* triple, whose one text-delta carries the concatenation, in arrival order,
\* of the contents of all text_delta events received, and which precedes
\* every tool-input frame.
C17_TextBuffered ==
    /\ ConsumingFirstStream =>
          \A i \in Positions : out[i].type \notin TextFrameTypes
    /\ StreamOver =>
          LET texts == {i \in FirstStep : out[i].type \in TextFrameTypes}
              tools == ToolPositions
          IN  /\ Cardinality(texts) \in {0, 3}
              /\ \A i \in texts :
                    out[i].type = "text-start" =>
                        /\ texts = {i, i + 1, i + 2}
                        /\ out[i + 1].type = "text-delta"
                        /\ out[i + 2].type = "text-end"
                        /\ out[i + 1].delta = Concatenation(upstream.text_delta)
                        /\ \A j \in tools : i + 2 < j
              /\ texts # {} => \E i \in texts : out[i].type = "text-start"

\* a finished stream whose text block joins two text_delta events and
\* precedes the frames of a tool call
C17_Witness ==
    /\ Completed
    /\ Len(upstream.text_delta) = 2
    /\ ToolPositions # {}
    /\ \E i \in At("text-delta") \cap FirstStep :
          out[i].delta = Concatenation(upstream.text_delta)

ReasoningFrameTypes == {"reasoning-start", "reasoning-delta", "reasoning-end"}

\* the deltas of the reasoning-delta frames, in the order of the stream
ReasoningDeltas ==
    LET frames == SelectSeq(out, LAMBDA f : f.type = "reasoning-delta")
    IN  [i \in 1..Len(frames) |-> frames[i].delta]

\* the reasoning-end frames among some frames
ReasoningEnds(frames) ==
    Cardinality({i \in 1..Len(frames) : frames[i].type = "reasoning-end"})

\* a reasoning-end frame is sent in the step that handles response_complete,
\* reasoning having been started, and in no other step
ReasoningEndOnComplete ==
    /\ ReasoningEnds(out') # ReasoningEnds(out) =>
          /\ OnResponseComplete
          /\ has_started_reasoning
          /\ out' = Append(out, ReasoningEnd(reasoning_id))
    /\ (OnResponseComplete /\ has_started_reasoning) =>
          ReasoningEnds(out') = ReasoningEnds(out) + 1

\* in the frames sent so far
ReasoningFramesInOrder ==
    /\ (StreamOver /\ ~HasThinking(model)) =>
          \A i \in Positions : out[i].type \notin ReasoningFrameTypes
    /\ (StreamOver /\ HasThinking(model)) =>
          /\ ReasoningDeltas = upstream.reasoning_delta
          /\ Count("reasoning-start") =
                (IF upstream.reasoning_delta = <<>> THEN 0 ELSE 1)
          /\ AllBefore(At("reasoning-start"), At("reasoning-delta"))
          /\ Count("reasoning-end") <= Count("reasoning-start")
          /\ AllBefore(At("reasoning-delta"), At("reasoning-end"))
          /\ AllBefore(At("reasoning-start"), At("reasoning-end"))
    /\ (pc = "streaming" /\ HasThinking(model)) =>
          /\ ReasoningDeltas = upstream.reasoning_delta
          /\ Count("reasoning-end") = 0

\* C18: reasoning frames are produced only for a reasoning-capable model;
\* then reasoning-start is emitted once, before the first reasoning-delta,
\* each reasoning_delta event gives one reasoning-delta frame in order, and
\* reasoning-end is emitted once, in the step in which response_complete
\* arrives, never without a reasoning-start before it.
C18_ReasoningFrames ==
    []ReasoningFramesInOrder /\ [][ReasoningEndOnComplete]_vars

\* a finished stream of a reasoning-capable model with two reasoning_delta
\* events and the three kinds of reasoning frames
C18_Witness ==
    /\ Completed
    /\ HasThinking(model)
    /\ Len(upstream.reasoning_delta) = 2
    /\ Count("reasoning-delta") = 2
    /\ Count("reasoning-start") = 1
    /\ Count("reasoning-end") = 1

\* the tool events the first stream has given: the events read that were
\* neither text nor reasoning
ToolEventsSeen ==
    events_read - Len(upstream.text_delta) - Len(upstream.reasoning_delta)

\* C19: the tool frames are determined by the authoritative list of tool
\* calls alone: the tool events of the stream produce no frame, a stream
\* with tool events and an empty list gives no tool frame, every tool frame
\* belongs to a call of the list, and a call of the list is replayed once.
C19_ReliableReplay ==
    /\ ConsumingFirstStream => ToolPositions = {}
    /\ StreamOver =>
          LET ids == ToolCallIds
              replayed == At("tool-input-start")
              resolved == At("tool-input-available")
              completed == Completed
          IN  /\ \A i \in ToolPositions : out[i].toolCallId \in ids
              /\ \A id \in ids :
                    LET starts ==
                            Cardinality({i \in replayed : out[i].toolCallId = id})
                        avails ==
                            Cardinality({i \in resolved : out[i].toolCallId = id})
                    IN  /\ starts <= 1
                        /\ avails <= 1
                        /\ completed => starts = 1 /\ avails = 1

\* a finished stream that saw tool events and whose list of two calls was
\* replayed
C19_Witness ==
    /\ Completed
    /\ ToolEventsSeen > 0
    /\ Len(tool_calls) = 2
    /\ \A id \in ToolCallIds :
          Cardinality(ToolAt("tool-input-start", id)) = 1

\* a finished stream that saw tool events and has no tool frame, the list
\* being empty
C19_EventsOnly ==
    /\ Completed
    /\ ToolEventsSeen > 0
    /\ tool_calls = <<>>
    /\ ToolPositions = {}

\* the text frames that carry the id of the follow-up response
FollowupTextPositions ==
    {i \in Positions : out[i].type \in TextFrameTypes /\ out[i].id = followup_id}

\* C20: the events of the follow-up response go through the same buffering
\* as the first turn: no text frame is emitted while the follow-up stream is
\* consumed, and its text is one text-start, one text-delta and one text-end
\* after the follow-up's response_complete.
C20_FollowupBuffered ==
    /\ pc = "followup_stream" => FollowupTextPositions = {}
    /\ StreamOver =>
          Cardinality({i \in FollowupTextPositions : out[i].type = "text-delta"}) <= 1

\* C16: under every interleaving of two requests at their suspension
\* points, the request that is suspended resumes in the very state it
\* stood in when it left (frames sent, Conversation State, text buffer,
\* tool calls, adapter flags), so that its steps are those of a run alone;
\* the tool registry is never written; and the text a request sends is the
\* text of its own upstream.  Checked under ConcurrentSpec.
C16_Isolation ==
    /\ Resumable = alone
    /\ tools_registry = RegistryAtImport
    /\ C17_TextBuffered

\* both requests are in the middle of their streams, each with its own text
\* in its buffer
C16_Witness ==
    /\ pc = "streaming"
    /\ text_content_buffer # <<>>
    /\ suspended.text_content_buffer # <<>>
    /\ suspended.text_content_buffer # text_content_buffer

\* C21: the tool calls of the follow-up response are a nested tool phase:
\* for each of them the stream of a finished request holds
\* tool-input-start, tool-input-delta, tool-input-available and
\* tool-output-available frames, the tool was executed and its result is in
\* the Conversation State.
C21_NestedToolPhase ==
    Completed =>
        \A k \in DOMAIN upstream.followup_tool_calls :
            LET id == upstream.followup_tool_calls[k].id
            IN  /\ ToolAt("tool-input-start", id) # {}
                /\ ToolAt("tool-input-delta", id) # {}
                /\ ToolAt("tool-input-available", id) # {}
                /\ ToolAt("tool-output-available", id) # {}
                /\ \E e \in DOMAIN exec_log : exec_log[e].id = id
                /\ \E m \in DOMAIN messages :
                      messages[m].role = "tool" /\ messages[m].tool_call_id = id

\* the follow-up model call fails: when it is started or while its stream
\* is read
FollowupFailure == FollowupCallRaises \/ FollowupStreamRaises

\* C22: a failure of the follow-up model call is surfaced as an error frame
\* with which the stream ends: the step of the failure appends one error
\* frame and nothing else, and the generator is over (no text frame,
\* finish-step, finish or [DONE] comes after it).
C22_FollowupFailureSurfaced ==
    [][FollowupFailure =>
          /\ Len(out') = Len(out) + 1
          /\ out'[Len(out')].type = "error"
          /\ pc' = "done"]_vars

\* the user and assistant messages of the client, in the client's order
ClientTurns == SelectSeq(request, LAMBDA m : m[1] \in {"user", "assistant"})

\* the system message, then one message for each of them
FirstCallLog ==
    <<Message("system", SystemPrompt, NoId)>>
    \o [i \in 1..Len(ClientTurns) |->
            Message(ClientTurns[i][1], <<"text", ClientTurns[i][2]>>, NoId)]

\* the log is what the first model call was given, then tool results only
LogBuilt ==
    messages # <<>> =>
        /\ Len(messages) >= Len(FirstCallLog)
        /\ SubSeq(messages, 1, Len(FirstCallLog)) = FirstCallLog
        /\ \A i \in DOMAIN messages :
              /\ messages[i].role = "system" <=> i = 1
              /\ i > Len(FirstCallLog) => messages[i].role = "tool"

\* a step builds the log for the first model call or appends to it
LogAppendOnly ==
    IF messages = <<>>
    THEN messages' \in {<<>>, FirstCallLog}
    ELSE /\ Len(messages') >= Len(messages)
         /\ SubSeq(messages', 1, Len(messages)) = messages

\* C23: the log given to the first model call is the system message, once
\* and first, then one message per user or assistant message of the client
\* in the client's order; afterwards tool-result messages are appended and
\* no entry is removed, rewritten or reordered, so that the log of the first
\* call is a prefix of the log of the follow-up call.
C23_AppendOnlyLog == []LogBuilt /\ [][LogAppendOnly]_vars

\* the follow-up call is made with a tool result appended to the log of the
\* first call
C23_Witness ==
    /\ pc = "followup_stream"
    /\ Len(messages) > Len(FirstCallLog)
    /\ messages[Len(messages)].role = "tool"

\* the calls of execute made for a tool call, in either phase
ExecutionsOf(id) == {e \in DOMAIN exec_log : exec_log[e].id = id}

\* C28: within one request a tool call of the model causes one invocation of
\* the registered tool's execute: never more than one in the tool phase and
\* the follow-up phase together, and one in a finished stream.
C28_ExecutedOnce ==
    \A k \in DOMAIN tool_calls :
        LET n == Cardinality(ExecutionsOf(tool_calls[k].id))
        IN  /\ n <= 1
            /\ (Completed /\ Registered(tool_calls[k])) => n = 1

\* the client was shown a success output for tool call id
ShownSuccess(id) ==
    \E i \in ToolAt("tool-output-available", id) :
        /\ "status" \in DOMAIN out[i].output
        /\ out[i].output.status = "success"

\* the Conversation State holds a result, not an error, for tool call id
LoggedResult(id) ==
    \E m \in DOMAIN messages :
        /\ messages[m].role = "tool"
        /\ messages[m].tool_call_id = id
        /\ messages[m].content # ToolError

\* C29: when the follow-up call is made, the tool-result message of each
\* tool call tells the same outcome as the call's terminal
\* tool-output-available frame: the client was shown a success exactly if
\* the log holds a result, for every argument text.
C29_LogMatchesFrames ==
    pc = "followup_call" =>
        \A k \in DOMAIN tool_calls :
            ShownSuccess(tool_calls[k].id) <=> LoggedResult(tool_calls[k].id)

\* the request is over: it was rejected with HTTP 500 and has no stream, or
\* the last frame of its stream is [DONE] or an error frame
Terminated ==
    \/ pc = "rejected"
    \/ /\ out # <<>>
       /\ out[Len(out)].type \in {"[DONE]", "error"}

\* C30: with finite model streams and tool executions that return or raise,
\* the stream of every request terminates: eventually [DONE] or an error
\* frame is emitted, no frame is emitted after it, and the model is called
\* at most twice for a request.
C30_Terminates ==
    /\ <>Terminated
    /\ [][Terminated => out' = out]_vars
    /\ [](upstream.calls <= 2)

\* a stream that ended with [DONE] after two model calls
C30_Witness ==
    /\ Completed
    /\ Terminated
    /\ upstream.calls = 2

(* ------------------- the events of the parser ------------------------- *)

\* the tool-call fragments of a chunk, and of the chunks read so far
FragmentsOf(chunk) ==
    IF chunk.choices = <<>> THEN <<>> ELSE chunk.choices[1].delta.tool_calls

RECURSIVE FragmentsSent(_)
FragmentsSent(chs) ==
    IF chs = <<>> THEN <<>>
    ELSE FragmentsOf(Head(chs)) \o FragmentsSent(Tail(chs))

\* the finish reason a chunk carries, "" for none
FinishReason(chunk) ==
    IF chunk.choices = <<>> THEN "" ELSE chunk.choices[1].finish_reason

\* the positions of the events of one type for one tool-call id
EventsOf(type, id) ==
    {i \in DOMAIN events :
        /\ events[i].event_type = type
        /\ events[i].tool_call_id = id}

\* C24: for every tool-call id, a ToolCallStart for it precedes each of its
\* ToolCallDelta events, and each of its ToolCallDelta events precedes each
\* of its ToolCallComplete events, whatever chunks the parser is fed.
C24_ToolEventOrder ==
    \A index \in 0..1 :
        LET starts == EventsOf("tool_call_start", CallId(index))
            deltas == EventsOf("tool_call_delta", CallId(index))
            completes == EventsOf("tool_call_complete", CallId(index))
        IN  /\ \A d \in deltas : \E s \in starts : s < d
            /\ \A d \in deltas : \A c \in completes : d < c

\* some chunk read so far carried a finish reason
Finished == \E k \in DOMAIN chunks : FinishReason(chunks[k]) # ""

\* C25: the events of a stream hold exactly one ResponseComplete once a chunk
\* with a finish reason is read, and no event follows a ResponseComplete,
\* whatever chunks follow that chunk.
C25_ResponseCompleteLast ==
    LET complete == {i \in DOMAIN events :
                        events[i].event_type = "response_complete"}
    IN  /\ \A i \in complete : i = Len(events)
        /\ Finished => complete # {}

\* the ids of the fragments that carry one, in the order first seen
RECURSIVE FirstSeen(_, _)
FirstSeen(fragments, seen) ==
    IF fragments = <<>> THEN seen
    ELSE LET id == Head(fragments).id
         IN  FirstSeen(Tail(fragments),
                       IF id = None \/ \E k \in DOMAIN seen : seen[k] = id
                       THEN seen
                       ELSE Append(seen, id))

\* the name the fragments with an id gave it last, "" if none did
NameOf(id, fragments) ==
    LET named == SelectSeq(fragments,
                           LAMBDA f : f.id = id /\ f.function.name # "")
    IN  IF named = <<>> THEN "" ELSE named[Len(named)].function.name

\* the arguments of the fragments with an id, joined in order
Accumulated(id, fragments) ==
    LET own == SelectSeq(fragments, LAMBDA f : f.id = id)
    IN  Concatenation([k \in DOMAIN own |-> own[k].function.arguments])

\* the ToolCallComplete events due when the stream finishes: one for each
\* tracked call with a name, in the order the calls were first seen
CompletionsDue(fragments) ==
    LET ids == SelectSeq(FirstSeen(fragments, <<>>),
                         LAMBDA id : NameOf(id, fragments) # "")
    IN  [k \in DOMAIN ids |->
            ToolCallComplete(ids[k], NameOf(ids[k], fragments),
                             Accumulated(ids[k], fragments))]

\* what a step that parses a chunk with a finish reason adds to the events
CompletionOnFinish ==
    LET chunk == chunks'[Len(chunks')]
        new == SubSeq(events', Len(events) + 1, Len(events'))
        own == SelectSeq(new, LAMBDA e : e.event_type \in
                   {"text_delta", "tool_call_start", "tool_call_delta"})
    IN  (ParseChunk /\ FinishReason(chunk) # "") =>
            new = own \o CompletionsDue(FragmentsSent(chunks'))
                      \o <<ResponseComplete(FinishReason(chunk))>>

\* C26: a chunk with a finish reason yields, after the events of its own
\* content, one ToolCallComplete for each tracked call with a non-empty name
\* (in first-seen order, with the call's name and accumulated arguments),
\* none for a call without a name, and then one ResponseComplete with the
\* finish reason as its last event.
C26_CompletionOnFinish == [][CompletionOnFinish]_vars

\* a chunk with a finish reason was parsed while the parser tracked a call
\* with a name and arguments and a call that never got a name
C26_Witness ==
    /\ chunks # <<>>
    /\ FinishReason(chunks[Len(chunks)]) # ""
    /\ events[Len(events)].event_type = "response_complete"
    /\ \E k \in DOMAIN parser.tool_calls : parser.tool_calls[k].name = ""
    /\ \E i \in DOMAIN events :
          /\ events[i].event_type = "tool_call_complete"
          /\ events[i].arguments # <<>>

\* the arguments the provider sent for the call at an index, joined in order
ArgumentsSent(index) ==
    LET own == SelectSeq(FragmentsSent(chunks), LAMBDA f : f.index = index)
    IN  Concatenation([k \in DOMAIN own |-> own[k].function.arguments])

\* the provider's first fragment for the call at an index carries its id
IdComesFirst(index) ==
    LET own == SelectSeq(FragmentsSent(chunks), LAMBDA f : f.index = index)
    IN  own # <<>> => own[1].id = CallId(index)

\* no chunk before the last one carried a finish reason
NothingAfterFinish ==
    \A k \in DOMAIN chunks : FinishReason(chunks[k]) # "" => k = Len(chunks)

\* C27: for every tool call, the ToolCallDelta events emitted for it, joined
\* in order, are the argument fragments the provider sent for it, joined in
\* order, and so are the arguments of its ToolCallComplete.
C27_ArgumentsFaithful ==
    \A index \in 0..1 :
        LET id == CallId(index)
            deltas == SelectSeq(events, LAMBDA e :
                          /\ e.event_type = "tool_call_delta"
                          /\ e.tool_call_id = id)
            joined == Concatenation(
                          [k \in DOMAIN deltas |-> deltas[k].arguments_delta])
        IN  (NothingAfterFinish /\ IdComesFirst(index)) =>
                /\ joined = ArgumentsSent(index)
                /\ \A c \in EventsOf("tool_call_complete", id) :
                      events[c].arguments = ArgumentsSent(index)

====
